---- MODULE Spec2Model ----
(***************************************************************************)
(* A model of the two programs of the repository:                          *)
(*   memory_efficent_huffman.cc  length-limited Huffman code with an       *)
(*                               escape entry, dense table, serial encode  *)
(*                               and decode;                               *)
(*   huffman_code.cc             histogram, Huffman tree, code table,      *)
(*                               serial encode and OpenMP parallel encode. *)
(* Both programs share the tree builder and the walk, which are modelled   *)
(* once.  Bits are 0 (false) and 1 (true).  An std::optional<value_t> is   *)
(* the sequence <<>> (std::nullopt) or <<v>>.                              *)
(***************************************************************************)
EXTENDS Integers, Sequences, FiniteSets, TLC

\* ------------------------------------------------------------------ bounds

\* histogram counts of the length-limited program are 1..MaxCount
MaxCount == 2
\* allowed_length is drawn from 1..MaxAllowed
MaxAllowed == 2
\* the encoded sequence has at most MaxSeqLen symbols
MaxSeqLen == 2
\* huffman_code.cc: values holds at most MaxN symbols (N in the source)
MaxN == 3
\* the OpenMP team has at most MaxThreads threads
MaxThreads == 2

\* the symbol values (value_t)
Values == -1..2

VARIABLES
  prog,          \* which program runs
  pc,            \* the program's position
  err,           \* the exception that ended the program, "" when none
  hist,          \* memory_efficent_huffman.cc: hist (value -> count)
  allowed_length,
  symbols_least_to_most_probable,
  lidx,          \* position of the range-for over symbols_least_to_most_probable
  working_hist,  \* optional value -> count
  encoding,      \* the code table: key -> sequence of bits
  Q,             \* the min priority queue, a set of queue_entry
  interiors,     \* id -> tree
  max_id,
  least_non_null_value,
  greatest_non_null_value,
  encoding_table,
  sequence,
  encoded_sequence,
  unpredictable,
  decoded_sequence,
  so_far,
  unpred_idx,
  di,            \* the decode loop's index i
  values,        \* huffman_code.cc: the input symbols
  histogram,
  encoded,       \* the serial encoder's output
  largest_encoding,
  par_encoded,
  acc,
  offsets,
  nthreads,      \* the size of the OpenMP team
  chunk,         \* chunk[w]: the last position of thread w's share of the scan loop
  wpc,           \* each thread's position in the parallel region
  wi,            \* each thread's loop index i
  wj,            \* each thread's loop index j
  wacc,          \* each thread's private copy of acc
  taken,         \* the iterations of the second loop handed to a thread
  writes         \* history: how often each cell of par_encoded was written

buildVars == <<Q, interiors, max_id>>
limitVars == <<hist, allowed_length, symbols_least_to_most_probable, lidx, working_hist>>
tableVars == <<least_non_null_value, greatest_non_null_value, encoding_table>>
encodeVars == <<sequence, encoded_sequence, unpredictable>>
decodeVars == <<decoded_sequence, so_far, unpred_idx, di>>
llVars == <<limitVars, tableVars, encodeVars, decodeVars>>
inputVars == <<values, histogram, nthreads>>
serialVars == <<encoded>>
teamVars == <<chunk, wpc, wi, wj, wacc, taken>>
outVars == <<largest_encoding, par_encoded, acc, offsets, writes>>
parVars == <<inputVars, serialVars, teamVars, outVars>>
vars == <<prog, pc, err, encoding, buildVars, llVars, parVars>>

\* ------------------------------------------------------------- helpers

None == <<>>
Some(v) == <<v>>

EmptyMap == <<>>

RECURSIVE SumOver(_, _)
SumOver(f, S) ==
  IF S = {} THEN 0
  ELSE LET x == CHOOSE y \in S : TRUE IN f[x] + SumOver(f, S \ {x})

IsPrefix(p, s) == Len(p) <= Len(s) /\ SubSeq(s, 1, Len(p)) = p

\* ------------------------------------------------- the tree builder

\* Value value = 0: the value a queue_entry holds when none is given
DefaultValue == IF prog = "memory_efficent_huffman" THEN Some(0) ELSE 0

\* a tree node; a null shared_ptr is <<>>, a set one is <<node>>
Leaf(value, count) ==
  [entry |-> [id |-> 0, value |-> value, count |-> count], left |-> <<>>, right |-> <<>>]

\* the queue after the loop that emplaces one entry per histogram symbol
SeedQueue(h) ==
  { [id |-> 0, value |-> v, count |-> h[v]] : v \in DOMAIN h }

\* a max queue (std::less in place of std::greater)
Tops_Greatest(q) == { e \in q : \A f \in q : e.count >= f.count }

\* Q.top(): an entry no other entry is smaller than; std::priority_queue
\* leaves the order of equal counts to the heap's layout
Tops(q) == { e \in q : \A f \in q : e.count <= f.count }

\* a child that is always a fresh leaf, whatever the side table holds
InsertOrRetrieveChild_AlwaysLeaf(ints, entry) ==
  [child |-> Leaf(entry.value, entry.count), interiors |-> ints]

\* a retrieval that leaves the subtree in the side table (no erase)
InsertOrRetrieveChild_NoErase(ints, entry) ==
  IF entry.id \in DOMAIN ints
  THEN [child |-> ints[entry.id], interiors |-> ints]
  ELSE [child |-> Leaf(entry.value, entry.count), interiors |-> ints]

\* insert_or_retrieve_child: the child and the side table after the call
InsertOrRetrieveChild(ints, entry) ==
  IF entry.id \in DOMAIN ints
  THEN [child |-> ints[entry.id],
        interiors |-> [k \in DOMAIN ints \ {entry.id} |-> ints[k]]]
  ELSE [child |-> Leaf(entry.value, entry.count), interiors |-> ints]

\* one iteration of while (Q.size() >= 2) with e1, e2 the two entries popped
MergeResult(ints, id, e1, e2) ==
  LET fresh == [entry |-> [id |-> id, value |-> DefaultValue, count |-> 0],
                left |-> <<>>, right |-> <<>>]
      stored == [k \in DOMAIN ints \cup {id} |-> IF k = id THEN fresh ELSE ints[k]]
      l == InsertOrRetrieveChild(stored, e1)
      r == InsertOrRetrieveChild(l.interiors, e2)
      node == [entry |-> [id |-> id, value |-> DefaultValue,
                          count |-> l.child.entry.count + r.child.entry.count],
               left |-> <<l.child>>, right |-> <<r.child>>]
  IN [node |-> node,
      interiors |-> [k \in DOMAIN r.interiors |-> IF k = id THEN node ELSE r.interiors[k]]]

BuildStep ==
  /\ pc = "build"
  /\ Cardinality(Q) >= 2
  /\ \E e1 \in Tops(Q) : \E e2 \in Tops(Q \ {e1}) :
       LET m == MergeResult(interiors, max_id, e1, e2)
       IN /\ interiors' = m.interiors
          /\ Q' = (Q \ {e1, e2}) \cup {m.node.entry}
  /\ max_id' = max_id + 1
  /\ UNCHANGED <<prog, pc, err, encoding, llVars, parVars>>

\* walk_impl: the assignments to encoding made under node, later ones winning
RECURSIVE walk_impl(_, _)
walk_impl(node, path) ==
  LET l == IF node.left # <<>> THEN walk_impl(node.left[1], Append(path, 0)) ELSE EmptyMap
      r == IF node.right # <<>> THEN walk_impl(node.right[1], Append(path, 1)) ELSE EmptyMap
      self == IF node.entry.id = 0 THEN (node.entry.value :> path) ELSE EmptyMap
  IN self @@ r @@ l

\* a walk that appends false on both descents
RECURSIVE walk_impl_SameBit(_, _)
walk_impl_SameBit(node, path) ==
  LET l == IF node.left # <<>> THEN walk_impl_SameBit(node.left[1], Append(path, 0)) ELSE EmptyMap
      r == IF node.right # <<>> THEN walk_impl_SameBit(node.right[1], Append(path, 0)) ELSE EmptyMap
      self == IF node.entry.id = 0 THEN (node.entry.value :> path) ELSE EmptyMap
  IN self @@ r @@ l

walk_SameBit(root) == walk_impl_SameBit(root, <<>>)

walk(root) == walk_impl(root, <<>>)

\* a lookup of the id after the last one assigned
RootId_NextId == max_id

\* the key of interiors.at(max_id-1)
RootId == max_id - 1

\* the loop has ended: root = interiors.at(max_id-1), walk(root)
Walk ==
  /\ pc = "build"
  /\ Cardinality(Q) < 2
  /\ IF RootId \in DOMAIN interiors
     THEN /\ encoding' = walk(interiors[RootId])
          /\ pc' = "built"
          /\ err' = err
     ELSE /\ pc' = "failed"
          /\ err' = "out_of_range"
          /\ encoding' = encoding
  /\ UNCHANGED <<prog, buildVars, llVars, parVars>>

\* ------------------------------------ memory_efficent_huffman.cc: main

\* the histograms main may be given: any values, any counts 1..MaxCount
Histograms ==
  UNION { [S -> 1..MaxCount] : S \in SUBSET Values }

\* the keys left in any order (the sort left out)
SortedOrders_Unsorted(h) ==
  { s \in [1..Cardinality(DOMAIN h) -> DOMAIN h] :
      \A i, j \in DOMAIN s : i # j => s[i] # s[j] }

\* std::sort(..., hist[lhs] < hist[rhs]): any order of the keys that is
\* nondecreasing in count
SortedOrders(h) ==
  { s \in [1..Cardinality(DOMAIN h) -> DOMAIN h] :
      /\ \A i, j \in DOMAIN s : i # j => s[i] # s[j]
      /\ \A i, j \in DOMAIN s : i < j => h[s[i]] <= h[s[j]] }

\* the variables of huffman_code.cc before its main has run
ParIdle ==
  /\ values = <<>>
  /\ histogram = EmptyMap
  /\ encoded = <<>>
  /\ largest_encoding = 0
  /\ par_encoded = <<>>
  /\ acc = 0
  /\ offsets = <<>>
  /\ nthreads = 1
  /\ chunk = <<>>
  /\ wpc = <<>>
  /\ wi = <<>>
  /\ wj = <<>>
  /\ wacc = <<>>
  /\ taken = {}
  /\ writes = <<>>

\* the variables both programs set before use
Unset ==
  /\ err = ""
  /\ encoding = EmptyMap
  /\ Q = {}
  /\ interiors = EmptyMap
  /\ max_id = 1
  /\ symbols_least_to_most_probable = <<>>
  /\ lidx = 1
  /\ working_hist = EmptyMap
  /\ least_non_null_value = 0
  /\ greatest_non_null_value = 0
  /\ encoding_table = <<>>
  /\ sequence = <<>>
  /\ encoded_sequence = <<>>
  /\ unpredictable = <<>>
  /\ decoded_sequence = <<>>
  /\ so_far = <<>>
  /\ unpred_idx = 0
  /\ di = 0

InitLimited ==
  /\ prog = "memory_efficent_huffman"
  /\ pc = "start"
  /\ Unset
  /\ ParIdle
  /\ hist \in Histograms
  /\ allowed_length \in 1..MaxAllowed

\* lines 151-159: the symbols sorted by count and the working copy of hist
SortSymbols ==
  /\ pc = "start"
  /\ prog = "memory_efficent_huffman"
  /\ symbols_least_to_most_probable' \in SortedOrders(hist)
  /\ working_hist' = [k \in { Some(v) : v \in DOMAIN hist } |-> hist[k[1]]]
  /\ pc' = "for"
  /\ UNCHANGED <<prog, err, encoding, buildVars, hist, allowed_length, lidx,
                 tableVars, encodeVars, decodeVars, parVars>>

\* a merge that erases the symbol and creates no escape entry
MergeInto_NoEscape(wh, least_symbol) ==
  [k \in DOMAIN wh \ {Some(least_symbol)} |-> wh[k]]

\* a merge that assigns the symbol's count to the escape entry (= for +=)
MergeInto_Assign(wh, least_symbol) ==
  LET keys == (DOMAIN wh \cup {None}) \ {Some(least_symbol)}
  IN [k \in keys |-> IF k = None THEN hist[least_symbol] ELSE wh[k]]

\* working_hist[std::nullopt] += hist[least_symbol]; working_hist.erase(least_symbol)
MergeInto(wh, least_symbol) ==
  LET old == IF None \in DOMAIN wh THEN wh[None] ELSE 0
      keys == (DOMAIN wh \cup {None}) \ {Some(least_symbol)}
  IN [k \in keys |-> IF k = None THEN old + hist[least_symbol] ELSE wh[k]]

\* a test that also refuses a histogram of two entries
TooFewSymbols_OffByOne(h) == Cardinality(DOMAIN h) <= 2

\* if(histogram.size() <= 1) throw std::invalid_argument(...)
TooFewSymbols(h) == Cardinality(DOMAIN h) <= 1

\* one pass of the range-for up to the call of build_encoding, which throws
\* std::invalid_argument on a histogram of at most one entry; main rethrows
\* it as std::runtime_error("cannot solve encoding")
MergeSymbol ==
  /\ pc = "for"
  /\ lidx <= Len(symbols_least_to_most_probable)
  /\ LET wh == MergeInto(working_hist, symbols_least_to_most_probable[lidx])
     IN /\ working_hist' = wh
        /\ IF TooFewSymbols(wh)
           THEN /\ pc' = "failed"
                /\ err' = "runtime_error"
                /\ UNCHANGED buildVars
           ELSE /\ pc' = "build"
                /\ err' = err
                /\ Q' = SeedQueue(wh)
                /\ interiors' = EmptyMap
                /\ max_id' = 1
  /\ UNCHANGED <<prog, encoding, hist, allowed_length, symbols_least_to_most_probable,
                 lidx, tableVars, encodeVars, decodeVars, parVars>>

\* the range-for ends without a break
ForExhausted ==
  /\ pc = "for"
  /\ lidx > Len(symbols_least_to_most_probable)
  /\ pc' = "step2"
  /\ UNCHANGED <<prog, err, encoding, buildVars, llVars, parVars>>

\* a reduction that keeps the smaller size
MaxLength_Min(enc) ==
  IF DOMAIN enc = {} THEN 0
  ELSE CHOOSE m \in { Len(enc[k]) : k \in DOMAIN enc } :
         \A k \in DOMAIN enc : Len(enc[k]) >= m

\* std::reduce over the table with max of the sizes
MaxLength(enc) ==
  IF DOMAIN enc = {} THEN 0
  ELSE CHOOSE m \in { Len(enc[k]) : k \in DOMAIN enc } :
         \A k \in DOMAIN enc : Len(enc[k]) <= m

\* if (max_length <= allowed_length) break; otherwise the next symbol
CheckLength ==
  /\ pc = "built"
  /\ prog = "memory_efficent_huffman"
  /\ IF MaxLength(encoding) <= allowed_length
     THEN /\ pc' = "step2"
          /\ lidx' = lidx
     ELSE /\ pc' = "for"
          /\ lidx' = lidx + 1
  /\ UNCHANGED <<prog, err, encoding, buildVars, hist, allowed_length,
                 symbols_least_to_most_probable, working_hist, tableVars,
                 encodeVars, decodeVars, parVars>>

\* ----------------------------------------- step 2: the dense table

\* the comparator of the first std::max_element: nullopt is least, and among
\* values the greater one is the lesser
LeastComp(lhs, rhs) ==
  IF lhs = None /\ rhs = None THEN FALSE
  ELSE IF lhs # None /\ rhs = None THEN FALSE
  ELSE IF lhs = None /\ rhs # None THEN TRUE
  ELSE lhs[1] > rhs[1]

\* the comparator of the second std::max_element
GreatestComp(lhs, rhs) ==
  IF lhs = None /\ rhs = None THEN FALSE
  ELSE IF lhs # None /\ rhs = None THEN FALSE
  ELSE IF lhs = None /\ rhs # None THEN TRUE
  ELSE lhs[1] < rhs[1]

\* the first std::max_element over the distinct keys: the key that compares
\* less than no other
LeastKey(keys) ==
  CHOOSE m \in keys : \A k \in keys : ~LeastComp(m, k)

\* the second std::max_element
GreatestKey(keys) ==
  CHOOSE m \in keys : \A k \in keys : ~GreatestComp(m, k)

\* encoding[k]: operator[] value-initializes a missing key
Subscript(enc, k) == IF k \in DOMAIN enc THEN enc[k] ELSE <<>>

AfterSubscript(enc, k) == IF k \in DOMAIN enc THEN enc ELSE (k :> <<>>) @@ enc

\* std::vector<std::vector<bool>> encoding_table(greatest - least)
TableSize(least, greatest) == greatest - least

\* slot i (0-based) of encoding_table, at index i+1 of the sequence
DenseTable(enc, least, greatest) ==
  [i \in 1..TableSize(least, greatest) |->
     IF Some((i - 1) + least) \in DOMAIN enc
     THEN enc[Some((i - 1) + least)]
     ELSE Subscript(enc, None)]

\* lines 184-214.  On an empty table std::max_element returns end(), and so
\* does it stand for a table whose only key is nullopt's value(): both end
\* the modelled program in pc = "undefined"
BuildDenseTable ==
  /\ pc = "step2"
  /\ IF DOMAIN encoding = {}
     THEN /\ pc' = "undefined"
          /\ UNCHANGED <<err, encoding, tableVars>>
     ELSE LET lo == LeastKey(DOMAIN encoding)
              hi == GreatestKey(DOMAIN encoding)
          IN IF lo = None \/ hi = None
             THEN /\ pc' = "failed"
                  /\ err' = "bad_optional_access"
                  /\ UNCHANGED <<encoding, tableVars>>
             ELSE /\ least_non_null_value' = lo[1]
                  /\ greatest_non_null_value' = hi[1]
                  /\ encoding_table' = DenseTable(encoding, lo[1], hi[1])
                  /\ encoding' = AfterSubscript(encoding, None)
                  /\ pc' = "encode"
                  /\ err' = err
  /\ UNCHANGED <<prog, buildVars, limitVars, encodeVars, decodeVars, parVars>>

\* auto const unpredictable_encoding = encoding[std::nullopt]
unpredictable_encoding == Subscript(encoding, None)

\* ------------------------------------------------------ serial encode

\* the test of line 218: the symbol goes out as the escape codeword
IsUnpredictable(i) ==
  LET encode_index == i - least_non_null_value
  IN \/ encode_index < 0
     \/ encode_index >= Len(encoding_table)
     \/ encoding_table[encode_index + 1] = unpredictable_encoding

\* the bits one symbol adds to encoded_sequence
EncodedBits(i) ==
  IF IsUnpredictable(i) THEN unpredictable_encoding
  ELSE encoding_table[(i - least_non_null_value) + 1]

\* one pass of for (auto i : sequence); the sequence is an input, chosen
\* symbol by symbol among the histogram's symbols
EncodeSymbol ==
  /\ pc = "encode"
  /\ Len(sequence) < MaxSeqLen
  /\ \E i \in DOMAIN hist :
       /\ sequence' = Append(sequence, i)
       /\ encoded_sequence' = encoded_sequence \o EncodedBits(i)
       /\ unpredictable' = IF IsUnpredictable(i) THEN Append(unpredictable, i)
                           ELSE unpredictable
  /\ UNCHANGED <<prog, pc, err, encoding, buildVars, limitVars, tableVars, decodeVars, parVars>>

\* the sequence has ended: lines 228-235 set the decoder up
EncodeDone ==
  /\ pc = "encode"
  /\ pc' = "decode"
  /\ decoded_sequence' = <<>>
  /\ so_far' = <<>>
  /\ unpred_idx' = 0
  /\ di' = 0
  /\ UNCHANGED <<prog, err, encoding, buildVars, limitVars, tableVars, encodeVars, parVars>>

\* ------------------------------------------------------------- decode

\* encodings_to_indices after lines 232-235: the last slot holding a codeword,
\* and 0 for the escape codeword
encodings_to_indices ==
  LET codes == { encoding_table[i] : i \in DOMAIN encoding_table }
      last(c) == CHOOSE i \in DOMAIN encoding_table :
                   /\ encoding_table[i] = c
                   /\ \A j \in DOMAIN encoding_table : encoding_table[j] = c => j <= i
  IN [c \in codes \cup {unpredictable_encoding} |->
        IF c = unpredictable_encoding THEN 0 ELSE last(c) - 1]

\* a decoder that forgets to add least_non_null_value back
DecodedSymbol_NoOffset(matched) ==
  IF matched # unpredictable_encoding
  THEN encodings_to_indices[matched]
  ELSE unpredictable[unpred_idx + 1]

\* what a match of the accumulator appends to decoded_sequence
DecodedSymbol(matched) ==
  IF matched # unpredictable_encoding
  THEN encodings_to_indices[matched] + least_non_null_value
  ELSE unpredictable[unpred_idx + 1]

\* unpred_idx after a match: unpredictable[unpred_idx++] on the escape codeword
NextUnpredIdx_Stuck(matched) == unpred_idx

NextUnpredIdx(matched) ==
  IF matched = unpredictable_encoding THEN unpred_idx + 1 ELSE unpred_idx

\* one pass of the loop over encoded_sequence.  unpredictable[unpred_idx]
\* past the end of the vector is undefined
DecodeBit ==
  /\ pc = "decode"
  /\ di < Len(encoded_sequence)
  /\ LET grown == Append(so_far, encoded_sequence[di + 1])
     IN IF grown \in DOMAIN encodings_to_indices
        THEN IF grown = unpredictable_encoding /\ unpred_idx >= Len(unpredictable)
             THEN /\ pc' = "undefined"
                  /\ UNCHANGED decodeVars
             ELSE /\ decoded_sequence' = Append(decoded_sequence, DecodedSymbol(grown))
                  /\ unpred_idx' = NextUnpredIdx(grown)
                  /\ so_far' = <<>>
                  /\ di' = di + 1
                  /\ pc' = pc
        ELSE /\ so_far' = grown
             /\ di' = di + 1
             /\ pc' = pc
             /\ UNCHANGED <<decoded_sequence, unpred_idx>>
  /\ UNCHANGED <<prog, err, encoding, buildVars, limitVars, tableVars, encodeVars, parVars>>

\* the loop has ended; decoded_sequence is printed, whatever so_far holds
DecodeDone ==
  /\ pc = "decode"
  /\ di >= Len(encoded_sequence)
  /\ pc' = "done"
  /\ UNCHANGED <<prog, err, encoding, buildVars, llVars, parVars>>

\* -------------------------------------------------- huffman_code.cc: main

\* the symbol values huffman_code.cc draws (rounded normal variates)
ParValues == -1..1

\* the sequences of at most n symbols
SeqsUpTo(S, n) == UNION { [1..k -> S] : k \in 0..n }

InitPar ==
  /\ prog = "huffman_code"
  /\ pc = "start"
  /\ Unset
  /\ hist = EmptyMap
  /\ allowed_length = 0
  /\ values \in SeqsUpTo(ParValues, MaxN)
  /\ nthreads \in 1..MaxThreads
  /\ histogram = EmptyMap
  /\ encoded = <<>>
  /\ largest_encoding = 0
  /\ par_encoded = <<>>
  /\ acc = 0
  /\ offsets = <<>>
  /\ chunk = <<>>
  /\ wpc = <<>>
  /\ wi = <<>>
  /\ wj = <<>>
  /\ wacc = <<>>
  /\ taken = {}
  /\ writes = <<>>

\* stage 1: histogram[v]++ for every v of values
CountOf(vals) ==
  [v \in { vals[i] : i \in DOMAIN vals } |->
     Cardinality({ i \in DOMAIN vals : vals[i] = v })]

\* stage 1 and the start of stage 2: the histogram and the seeded queue
ComputeHistogram ==
  /\ pc = "start"
  /\ prog = "huffman_code"
  /\ histogram' = CountOf(values)
  /\ Q' = SeedQueue(CountOf(values))
  /\ interiors' = EmptyMap
  /\ max_id' = 1
  /\ pc' = "build"
  /\ UNCHANGED <<prog, err, encoding, llVars, values, nthreads, serialVars, teamVars, outVars>>

\* encoding.at(v).size()
CodeLen(v) == Len(encoding[v])

\* the serial loop: encoded.insert(encoded.end(), encoding.at(v)...) for each v
RECURSIVE SerialEncoded(_)
SerialEncoded(vals) ==
  IF vals = <<>> THEN <<>>
  ELSE encoding[Head(vals)] \o SerialEncoded(Tail(vals))

\* stage 4 (serial); encoding.at throws std::out_of_range on a missing symbol
SerialEncode ==
  /\ pc = "built"
  /\ prog = "huffman_code"
  /\ IF \A i \in DOMAIN values : values[i] \in DOMAIN encoding
     THEN /\ encoded' = SerialEncoded(values)
          /\ pc' = "par_setup"
          /\ err' = err
     ELSE /\ pc' = "failed"
          /\ err' = "out_of_range"
          /\ encoded' = encoded
  /\ UNCHANGED <<prog, encoding, buildVars, llVars, inputVars, teamVars, outVars>>

\* the smallest of the codeword sizes (std::min for std::max)
LargestEncoding_Min(enc) ==
  IF DOMAIN enc = {} THEN 0
  ELSE CHOOSE m \in { Len(enc[k]) : k \in DOMAIN enc } :
         \A k \in DOMAIN enc : Len(enc[k]) >= m

\* largest_encoding: the max of the codeword sizes
LargestEncoding(enc) ==
  IF DOMAIN enc = {} THEN 0
  ELSE CHOOSE m \in { Len(enc[k]) : k \in DOMAIN enc } :
         \A k \in DOMAIN enc : Len(enc[k]) <= m

\* a vector of n value-initialized elements
Zeros(n) == [i \in 1..n |-> 0]

\* lines 184-196: the buffers of the parallel encoder
ParSetup ==
  /\ pc = "par_setup"
  /\ largest_encoding' = LargestEncoding(encoding)
  /\ par_encoded' = Zeros(Len(values) * LargestEncoding(encoding))
  /\ writes' = Zeros(Len(values) * LargestEncoding(encoding))
  /\ acc' = 0
  /\ offsets' = Zeros(Len(values))
  /\ pc' = "fork"
  /\ UNCHANGED <<prog, err, encoding, buildVars, llVars, inputVars, serialVars, teamVars>>

Threads == 1..nthreads

\* the shares of the scan loop: thread w has the positions after chunk[w-1]
\* up to chunk[w], contiguous and in thread order
Chunkings(n) ==
  { c \in [Threads -> 0..n] :
      /\ c[nthreads] = n
      /\ \A w \in Threads : w > 1 => c[w - 1] <= c[w] }

ChunkFirst(w) == IF w = 1 THEN 1 ELSE chunk[w - 1] + 1

ChunkLast(w) == chunk[w]

\* #pragma omp parallel: the team starts, each thread with its private acc
\* (the identity of +) at the start of its share of the scan loop
Fork ==
  /\ pc = "fork"
  /\ \E c \in Chunkings(Len(values)) :
       /\ chunk' = c
       /\ wi' = [w \in Threads |-> IF w = 1 THEN 1 ELSE c[w - 1] + 1]
       /\ wpc' = [w \in Threads |->
                   IF (IF w = 1 THEN 1 ELSE c[w - 1] + 1) > c[w]
                   THEN "input_done" ELSE "input"]
  /\ wj' = [w \in Threads |-> 0]
  /\ wacc' = [w \in Threads |-> 0]
  /\ taken' = {}
  /\ pc' = "parallel"
  /\ UNCHANGED <<prog, err, encoding, buildVars, llVars, inputVars, serialVars, outVars>>

\* the input phase of one iteration (the statement after the scan directive):
\* acc += encoding.at(values[i]).size() on the thread's private acc
ScanInput(w) ==
  /\ pc = "parallel"
  /\ wpc[w] = "input"
  /\ wacc' = [wacc EXCEPT ![w] = @ + CodeLen(values[wi[w]])]
  /\ wi' = [wi EXCEPT ![w] = @ + 1]
  /\ wpc' = [wpc EXCEPT ![w] = IF wi[w] + 1 > ChunkLast(w) THEN "input_done" ELSE "input"]
  /\ UNCHANGED <<prog, pc, err, encoding, buildVars, llVars, inputVars, serialVars,
                 chunk, wj, taken, outVars>>

\* a thread that leaves its chunk's carry at 0
ThreadPrefix_NoCarry(w) == 0

\* the carry into thread w's chunk: the totals of the chunks before it
ThreadPrefix(w) ==
  SumOver(wacc, { u \in Threads : u < w })

\* every thread has summed its share: each private acc becomes the exclusive
\* prefix over the threads, and the threads pass over their shares again
ScanCombine ==
  /\ pc = "parallel"
  /\ \A w \in Threads : wpc[w] = "input_done"
  /\ wacc' = [w \in Threads |-> ThreadPrefix(w)]
  /\ wi' = [w \in Threads |-> ChunkFirst(w)]
  /\ wpc' = [w \in Threads |-> IF ChunkFirst(w) > ChunkLast(w) THEN "barrier" ELSE "scan"]
  /\ UNCHANGED <<prog, pc, err, encoding, buildVars, llVars, inputVars, serialVars,
                 chunk, wj, taken, outVars>>

\* an inclusive scan: acc with the iteration's own size already added
ScanValue_Inclusive(w) == wacc[w] + CodeLen(values[wi[w]])

\* scan exclusive(acc): the acc the statement before the directive reads is
\* the sum over the iterations before this one
ScanValue(w) == wacc[w]

\* the scan phase of one iteration: offsets[i] = acc, with acc the exclusive
\* prefix, which then takes the iteration's own size
ScanOutput(w) ==
  /\ pc = "parallel"
  /\ wpc[w] = "scan"
  /\ offsets' = [offsets EXCEPT ![wi[w]] = ScanValue(w)]
  /\ wacc' = [wacc EXCEPT ![w] = @ + CodeLen(values[wi[w]])]
  /\ wi' = [wi EXCEPT ![w] = @ + 1]
  /\ wpc' = [wpc EXCEPT ![w] = IF wi[w] + 1 > ChunkLast(w) THEN "barrier" ELSE "scan"]
  /\ UNCHANGED <<prog, pc, err, encoding, buildVars, llVars, inputVars, serialVars,
                 chunk, wj, taken, largest_encoding, par_encoded, acc, writes>>

\* a reduction that leaves the first thread's value in acc
ReducedAcc_First == acc + wacc[1]

\* the reduction's result: the original acc and every iteration's size, which
\* the last thread's private acc holds after its pass
ReducedAcc == acc + wacc[nthreads]

\* a barrier that opens as soon as one thread has reached it
BarrierReached_Any == \E w \in Threads : wpc[w] = "barrier"

\* the implicit barrier of the scan loop (it has no nowait clause): no thread
\* passes until every thread of the team has ended its share
BarrierReached == \A w \in Threads : wpc[w] = "barrier"

\* the implicit barrier at the end of the scan loop: acc gets the reduction,
\* the loop's private variables and schedule go out of scope, and every
\* thread goes on to the second loop
Barrier ==
  /\ pc = "parallel"
  /\ BarrierReached
  /\ acc' = ReducedAcc
  /\ wpc' = [w \in Threads |-> "scatter"]
  /\ wi' = [w \in Threads |-> 0]
  /\ wacc' = [w \in Threads |-> 0]
  /\ chunk' = <<>>
  /\ UNCHANGED <<prog, pc, err, encoding, buildVars, llVars, inputVars, serialVars,
                 wj, taken, largest_encoding, par_encoded, offsets, writes>>

\* a thread takes an iteration of the second loop nobody has taken:
\* auto encoded = encoding.at(values[i])
ScatterTake(w) ==
  /\ pc = "parallel"
  /\ wpc[w] = "scatter"
  /\ \E i \in DOMAIN values \ taken :
       /\ taken' = taken \cup {i}
       /\ wi' = IF CodeLen(values[i]) = 0 THEN wi ELSE [wi EXCEPT ![w] = i]
       /\ wpc' = [wpc EXCEPT ![w] = IF CodeLen(values[i]) = 0 THEN "scatter" ELSE "write"]
  /\ wj' = [wj EXCEPT ![w] = 0]
  /\ UNCHANGED <<prog, pc, err, encoding, buildVars, llVars, inputVars, serialVars,
                 chunk, wacc, outVars>>

\* par_encoded[j + offsets[i]] = encoded[j]; a write past the end of the
\* vector is undefined.  After the last bit i and j go out of scope
ScatterWrite(w) ==
  /\ pc = "parallel"
  /\ wpc[w] = "write"
  /\ LET cell == wj[w] + offsets[wi[w]] + 1
     IN IF cell \in DOMAIN par_encoded
        THEN /\ par_encoded' = [par_encoded EXCEPT ![cell] = encoding[values[wi[w]]][wj[w] + 1]]
             /\ writes' = [writes EXCEPT ![cell] = @ + 1]
             /\ IF wj[w] + 1 >= CodeLen(values[wi[w]])
                THEN /\ wpc' = [wpc EXCEPT ![w] = "scatter"]
                     /\ wj' = [wj EXCEPT ![w] = 0]
                     /\ wi' = [wi EXCEPT ![w] = 0]
                ELSE /\ wj' = [wj EXCEPT ![w] = @ + 1]
                     /\ UNCHANGED <<wpc, wi>>
             /\ pc' = pc
        ELSE /\ pc' = "undefined"
             /\ UNCHANGED <<par_encoded, writes, wj, wpc, wi>>
  /\ UNCHANGED <<prog, err, encoding, buildVars, llVars, inputVars, serialVars,
                 chunk, wacc, taken, largest_encoding, acc, offsets>>

\* nowait: a thread with no iteration left to take reaches the end of the
\* parallel region
ScatterEnd(w) ==
  /\ pc = "parallel"
  /\ wpc[w] = "scatter"
  /\ taken = DOMAIN values
  /\ wpc' = [wpc EXCEPT ![w] = "end"]
  /\ UNCHANGED <<prog, pc, err, encoding, buildVars, llVars, inputVars, serialVars,
                 chunk, wi, wj, wacc, taken, outVars>>

\* par_encoded.resize(n): the first n elements, zeros added when it grows
Resize(v, n) == [i \in 1..n |-> IF i <= Len(v) THEN v[i] ELSE 0]

\* the end of the parallel region and par_encoded.resize(acc)
Join ==
  /\ pc = "parallel"
  /\ \A w \in Threads : wpc[w] = "end"
  /\ par_encoded' = Resize(par_encoded, acc)
  /\ pc' = "done"
  /\ UNCHANGED <<prog, err, encoding, buildVars, llVars, inputVars, serialVars,
                 teamVars, largest_encoding, acc, offsets, writes>>

\* ----------------------------------------------------- specifications

NextLimiter == SortSymbols \/ MergeSymbol \/ ForExhausted \/ BuildStep \/ Walk \/ CheckLength

\* the length-limiting loop of memory_efficent_huffman.cc alone
SpecLimiter == InitLimited /\ [][NextLimiter]_vars

NextCodec ==
  \/ NextLimiter
  \/ BuildDenseTable
  \/ EncodeSymbol
  \/ EncodeDone
  \/ DecodeBit
  \/ DecodeDone

\* memory_efficent_huffman.cc from the histogram to the decoded sequence
SpecCodec == InitLimited /\ [][NextCodec]_vars

NextPar ==
  \/ ComputeHistogram
  \/ BuildStep
  \/ Walk
  \/ SerialEncode
  \/ ParSetup
  \/ Fork
  \/ \E w \in Threads : ScanInput(w)
  \/ ScanCombine
  \/ \E w \in Threads : ScanOutput(w)
  \/ Barrier
  \/ \E w \in Threads : ScatterTake(w)
  \/ \E w \in Threads : ScatterWrite(w)
  \/ \E w \in Threads : ScatterEnd(w)
  \/ Join

\* main with any allowed_length, 0 included
InitLimitedAnyLength ==
  /\ prog = "memory_efficent_huffman"
  /\ pc = "start"
  /\ Unset
  /\ ParIdle
  /\ hist \in Histograms
  /\ allowed_length \in 0..MaxAllowed

\* the length-limiting loop for any allowed_length; main is sequential, so a
\* step that can be taken is taken
SpecLimiterFair ==
  InitLimitedAnyLength /\ [][NextLimiter]_vars /\ WF_vars(NextLimiter)

\* huffman_code.cc from the input values to the two encoded outputs
SpecPar == InitPar /\ [][NextPar]_vars

\* the decoder handed a bitstream that lost its last bit on the way
Truncate ==
  /\ pc = "decode"
  /\ di = 0
  /\ encoded_sequence # <<>>
  /\ encoded_sequence' = SubSeq(encoded_sequence, 1, Len(encoded_sequence) - 1)
  /\ UNCHANGED <<prog, pc, err, encoding, buildVars, limitVars, tableVars, sequence,
                 unpredictable, decodeVars, parVars>>

NextCodecCut == NextCodec \/ Truncate

\* SpecCodec with a decoder whose input may have been cut short
SpecCodecCut == InitLimited /\ [][NextCodecCut]_vars

\* ------------------------------------------------------------ claims

RECURSIVE Pow2(_)
Pow2(n) == IF n <= 0 THEN 1 ELSE 2 * Pow2(n - 1)

\* the leaf or interior node a bit path leads to from node, <<>> when it
\* leaves the tree
RECURSIVE Descend(_, _)
Descend(node, path) ==
  IF path = <<>> THEN <<node>>
  ELSE LET child == IF Head(path) = 0 THEN node.left ELSE node.right
       IN IF child = <<>> THEN <<>> ELSE Descend(child[1], Tail(path))

PrefixFree(enc) ==
  \A a, b \in DOMAIN enc : a # b => ~IsPrefix(enc[a], enc[b])

\* sum over the symbols of count x codeword length
Cost(h, len) == SumOver([k \in DOMAIN h |-> h[k] * len[k]], DOMAIN h)

\* the codeword lengths some prefix-free code has (Kraft's inequality), each
\* length at most the number of symbols
PrefixCodeLengths(keys) ==
  LET n == Cardinality(keys)
  IN { len \in [keys -> 1..n] :
         SumOver([k \in keys |-> Pow2(n - len[k])], keys) <= Pow2(n) }

\* the symbols the encoder sent as escapes, in order
EscapedOf(seq) == SelectSeq(seq, IsUnpredictable)

\* the symbols the length limiter has merged into the escape entry so far
Merged ==
  IF pc = "start" THEN {}
  ELSE { Some(v) : v \in DOMAIN hist } \ DOMAIN working_hist

\* C1: decoding what the encoder produced gives the sequence back: the decoded
\* symbols are always a prefix of the sequence and, when the decoder ends, the
\* whole of it; the program never leaves its defined behaviour on the way.
C1_RoundTrip ==
  /\ pc = "decode" => IsPrefix(decoded_sequence, sequence)
  /\ pc = "done" => decoded_sequence = sequence
  /\ pc = "undefined" => DOMAIN encoding = {}

C1_Witness ==
  /\ pc = "done"
  /\ Len(sequence) = 2
  /\ decoded_sequence = sequence
  /\ Len(unpredictable) = 1
  /\ \E i \in 1..2 : sequence[i] = least_non_null_value /\ ~IsUnpredictable(sequence[i])
  /\ \E i \in 1..2 : Some(sequence[i]) \notin DOMAIN encoding

\* C3: the length limiter ends with a table whose codewords, the escape
\* codeword included, are all at most allowed_length long, or with the
\* runtime_error "cannot solve encoding"; it ends in no other way.
C3_LengthBound ==
  /\ pc = "step2" => \A k \in DOMAIN encoding : Len(encoding[k]) <= allowed_length
  /\ pc = "failed" => err = "runtime_error"
  /\ pc \in {"step2", "failed"} \/ ENABLED NextLimiter

C3_Witness ==
  /\ pc = "step2"
  /\ lidx >= 2
  /\ Cardinality(DOMAIN encoding) >= 3
  /\ \E k \in DOMAIN encoding : Len(encoding[k]) = allowed_length

\* C4: the table build_encoding returns has one codeword per symbol of the
\* histogram it was given, no codeword is a prefix of another, and following a
\* symbol's codeword from the root (0 left, 1 right) ends at that symbol's leaf.
C4_PrefixFreePaths ==
  pc = "built" =>
    /\ DOMAIN encoding = DOMAIN working_hist
    /\ PrefixFree(encoding)
    /\ \A k \in DOMAIN encoding :
         LET at == Descend(interiors[max_id - 1], encoding[k])
         IN /\ at # <<>>
            /\ at[1].entry.id = 0
            /\ at[1].entry.value = k
            /\ at[1].left = <<>> /\ at[1].right = <<>>

C4_Witness ==
  /\ pc = "built"
  /\ Cardinality(DOMAIN working_hist) = 4
  /\ \E k \in DOMAIN encoding : Len(encoding[k]) = 3
  /\ \E k \in DOMAIN encoding : Len(encoding[k]) = 1

\* C5: the table build_encoding returns costs no more than any prefix-free
\* code for the histogram it was given, whichever of the equal counts was
\* popped first.
C5_Optimal ==
  pc = "built" =>
    \A len \in PrefixCodeLengths(DOMAIN working_hist) :
      Cost(working_hist, [k \in DOMAIN working_hist |-> Len(encoding[k])])
        <= Cost(working_hist, len)

C5_Witness ==
  /\ pc = "built"
  /\ Cardinality(DOMAIN working_hist) = 4
  /\ \E a, b \in DOMAIN working_hist : a # b /\ working_hist[a] = working_hist[b]
  /\ \E a, b \in DOMAIN working_hist : working_hist[a] < working_hist[b]
  /\ \E k \in DOMAIN encoding : Len(encoding[k]) = 3

\* C6: when the bitstream ends while the accumulator holds bits that match no
\* codeword, the decoder fails with MalformedBitstream.
C6_Malformed ==
  (pc = "done" /\ so_far # <<>>) => err = "MalformedBitstream"

\* C7: the dense table has one slot for each value from the least to the
\* greatest coded symbol, both included, holding the symbol's codeword or,
\* for a value with none, the escape codeword.
C7_DenseCoversRange ==
  pc \in {"encode", "decode", "done"} =>
    /\ Len(encoding_table) = greatest_non_null_value - least_non_null_value + 1
    /\ \A v \in least_non_null_value..greatest_non_null_value :
         /\ (v - least_non_null_value) + 1 \in DOMAIN encoding_table
         /\ encoding_table[(v - least_non_null_value) + 1] =
              (IF Some(v) \in DOMAIN encoding THEN encoding[Some(v)]
               ELSE encoding[None])

\* C8: the side channel holds the escaped symbols of the sequence in encode
\* order, the decoder has emitted for its escapes exactly the first
\* unpred_idx of them in that order, never reads past the end, and has
\* consumed them all when it ends.
C8_SideChannelFifo ==
  /\ pc \in {"encode", "decode", "done"} => unpredictable = EscapedOf(sequence)
  /\ pc \in {"decode", "done"} =>
       /\ unpred_idx <= Len(unpredictable)
       /\ EscapedOf(decoded_sequence) = SubSeq(unpredictable, 1, unpred_idx)
  /\ pc = "done" => unpred_idx = Len(unpredictable)
  /\ pc = "undefined" => DOMAIN encoding = {}

C8_Witness ==
  /\ pc = "done"
  /\ Len(unpredictable) = 2
  /\ unpredictable[1] > unpredictable[2]
  /\ unpred_idx = 2
  /\ decoded_sequence = unpredictable

\* no merge is needed: a code for n >= 2 symbols has no codeword longer than
\* n - 1, which allowed_length admits
NoMergeNeeded ==
  /\ Cardinality(DOMAIN hist) >= 2
  /\ Cardinality(DOMAIN hist) - 1 <= allowed_length

\* C9 as claimed: the final table holds the escape symbol once a merge has
\* occurred, and no escape symbol when no merge was needed.
C9_Original ==
  pc = "step2" =>
    /\ Merged # {} => None \in DOMAIN encoding
    /\ NoMergeNeeded => None \notin DOMAIN encoding

\* C9 as amended: whenever the limiter returns a table for a histogram of at
\* least two symbols, at least one merge has occurred (the least probable
\* symbol is gone) and the table holds the escape symbol, also when no merge
\* was needed.
C9_EscapeAlways ==
  (pc = "step2" /\ Cardinality(DOMAIN hist) >= 2) =>
    /\ Merged # {}
    /\ Merged \cap DOMAIN encoding = {}
    /\ None \in DOMAIN encoding

C9_Witness ==
  /\ pc = "step2"
  /\ NoMergeNeeded
  /\ Cardinality(DOMAIN hist) = 3
  /\ None \in DOMAIN encoding
  /\ Cardinality(Merged) = 1

\* the second loop of the parallel region is running or has ended
InPhase2 ==
  /\ prog = "huffman_code"
  /\ \/ pc = "done"
     \/ pc = "parallel" /\ \A w \in Threads : wpc[w] \in {"scatter", "write", "end"}

\* the cells of par_encoded (1-based) the second loop writes for position i
WriteRange(i) == (offsets[i] + 1)..(offsets[i] + CodeLen(values[i]))

C10_DisjointWrites ==
  InPhase2 =>
    /\ \A i, k \in DOMAIN values : i # k => WriteRange(i) \cap WriteRange(k) = {}
    /\ \A c \in DOMAIN writes : writes[c] <= 1
    /\ pc = "parallel" =>
         \A w, u \in Threads :
           (w # u /\ wpc[w] = "write" /\ wpc[u] = "write") =>
             wj[w] + offsets[wi[w]] # wj[u] + offsets[wi[u]]
    /\ pc = "done" =>
         \A c \in DOMAIN writes : writes[c] = (IF c <= acc THEN 1 ELSE 0)

C10_Witness ==
  /\ prog = "huffman_code"
  /\ pc = "parallel"
  /\ nthreads = 2
  /\ wpc[1] = "write" /\ wpc[2] = "write"
  /\ wi[1] > wi[2]
  /\ wj[1] = 1
  /\ \E c \in DOMAIN writes : writes[c] = 1

\* the sum of the codeword sizes of the positions before i
PrefixLen(i) ==
  SumOver([k \in DOMAIN values |-> CodeLen(values[k])], { k \in DOMAIN values : k < i })

\* the positions of a thread in the second loop of the parallel region
Phase2Pcs == {"scatter", "write", "end"}

\* C11: a barrier separates the two loops of the parallel region: while any
\* thread is in the second loop no thread is still in the scan loop, acc holds
\* the whole reduction, every offsets[i] is final, and the offset a thread
\* reads for the cell it is about to write is the final one.
C11_BarrierSeparates ==
  (prog = "huffman_code" /\ pc = "parallel") =>
    \A w \in Threads :
      wpc[w] \in Phase2Pcs =>
        /\ \A u \in Threads : wpc[u] \in Phase2Pcs
        /\ \A i \in DOMAIN values : offsets[i] = PrefixLen(i)
        /\ acc = PrefixLen(Len(values) + 1)
        /\ wpc[w] = "write" => offsets[wi[w]] = PrefixLen(wi[w])

C11_Witness ==
  /\ prog = "huffman_code"
  /\ pc = "parallel"
  /\ nthreads = 2
  /\ Len(values) = 3
  /\ wpc[1] = "write" /\ wi[1] = 3
  /\ wpc[2] = "scatter"
  /\ offsets[3] = 3
  /\ acc = 5

\* the exception build_encoding throws on a histogram of at most one entry
InsufficientAlphabet == "invalid_argument"

\* C12: a builder given a histogram of fewer than two entries fails with the
\* error that names the short alphabet and returns no table; here for the
\* builder of huffman_code.cc.
C12_InsufficientAlphabet ==
  (prog = "huffman_code" /\ pc \notin {"start", "build"}
     /\ Cardinality(DOMAIN histogram) < 2) =>
    /\ pc = "failed"
    /\ err = InsufficientAlphabet
    /\ encoding = EmptyMap

\* the sum of the counts of a histogram
Total(h) == SumOver(h, DOMAIN h)

\* C13: after every merge of the length limiter the counts of working_hist
\* add up to the counts of hist, and the escape entry's count is the sum of
\* the counts hist gives the symbols merged so far.
C13_CountConserved ==
  (prog = "memory_efficent_huffman" /\ pc # "start") =>
    /\ Total(working_hist) = Total(hist)
    /\ \A k \in DOMAIN working_hist : k # None => working_hist[k] = hist[k[1]]
    /\ None \in DOMAIN working_hist =>
         working_hist[None] = SumOver([k \in Merged |-> hist[k[1]]], Merged)
    /\ None \notin DOMAIN working_hist => Merged = {}

C13_Witness ==
  /\ pc = "built"
  /\ Cardinality(Merged) = 2
  /\ Cardinality(DOMAIN working_hist) = 3
  /\ working_hist[None] = 3
  /\ Total(working_hist) = 7

\* C14: the scan loop computes an exclusive prefix sum whatever the shares of
\* the threads and their interleaving: every offsets[i] a thread has stored
\* is the sum of the codeword sizes of the positions before i (0 for the first
\* position), and when every thread has ended its share the reduction gives
\* acc the sum of all codeword sizes, which it keeps to the end.
C14_ExclusiveScan ==
  /\ (prog = "huffman_code" /\ pc = "parallel") =>
       /\ \A w \in Threads :
            wpc[w] \in {"scan", "barrier"} =>
              \A i \in ChunkFirst(w)..(wi[w] - 1) : offsets[i] = PrefixLen(i)
       /\ BarrierReached =>
            /\ \A i \in DOMAIN values : offsets[i] = PrefixLen(i)
            /\ ReducedAcc = PrefixLen(Len(values) + 1)
  /\ (prog = "huffman_code" /\ pc = "done") =>
       /\ \A i \in DOMAIN values : offsets[i] = PrefixLen(i)
       /\ values # <<>> => offsets[1] = 0
       /\ acc = PrefixLen(Len(values) + 1)

C14_Witness ==
  /\ prog = "huffman_code"
  /\ pc = "parallel"
  /\ nthreads = 2
  /\ BarrierReached
  /\ chunk = <<1, 3>>
  /\ offsets = <<0, 2, 3>>
  /\ ReducedAcc = 5

\* the histogram the builder was given
BuiltHist == IF prog = "huffman_code" THEN histogram ELSE working_hist

\* the number of nodes without children under node, node included
RECURSIVE NumLeaves(_)
NumLeaves(node) ==
  IF node.left = <<>> /\ node.right = <<>> THEN 1
  ELSE (IF node.left # <<>> THEN NumLeaves(node.left[1]) ELSE 0)
       + (IF node.right # <<>> THEN NumLeaves(node.right[1]) ELSE 0)

\* the number of nodes with a child under node, node included
RECURSIVE NumInteriors(_)
NumInteriors(node) ==
  IF node.left = <<>> /\ node.right = <<>> THEN 0
  ELSE 1 + (IF node.left # <<>> THEN NumInteriors(node.left[1]) ELSE 0)
         + (IF node.right # <<>> THEN NumInteriors(node.right[1]) ELSE 0)

\* the <<value, count>> pairs of the leaves under node
RECURSIVE LeafEntries(_)
LeafEntries(node) ==
  IF node.left = <<>> /\ node.right = <<>>
  THEN { <<node.entry.value, node.entry.count>> }
  ELSE (IF node.left # <<>> THEN LeafEntries(node.left[1]) ELSE {})
       \cup (IF node.right # <<>> THEN LeafEntries(node.right[1]) ELSE {})

\* every node under node is a leaf with id 0 or has an id, two children and
\* the sum of their counts
RECURSIVE FullTree(_)
FullTree(node) ==
  IF node.left = <<>> /\ node.right = <<>> THEN node.entry.id = 0
  ELSE /\ node.entry.id # 0
       /\ node.left # <<>> /\ node.right # <<>>
       /\ node.entry.count = node.left[1].entry.count + node.right[1].entry.count
       /\ FullTree(node.left[1]) /\ FullTree(node.right[1])

\* C16: the tree built for a histogram of n >= 2 entries is a full binary
\* tree: n leaves, one per symbol with the symbol's count, n - 1 interior
\* nodes, each with two children and the sum of their counts, so that the
\* root's count is the total of the histogram.
C16_FullBinaryTree ==
  pc = "built" =>
    LET root == interiors[max_id - 1]
        n == Cardinality(DOMAIN BuiltHist)
    IN /\ n >= 2
       /\ FullTree(root)
       /\ NumLeaves(root) = n
       /\ NumInteriors(root) = n - 1
       /\ LeafEntries(root) = { <<v, BuiltHist[v]>> : v \in DOMAIN BuiltHist }
       /\ root.entry.count = Total(BuiltHist)

C16_Witness ==
  /\ pc = "built"
  /\ Cardinality(DOMAIN working_hist) = 4
  /\ NumInteriors(interiors[max_id - 1]) = 3
  /\ NumLeaves(interiors[max_id - 1].right[1]) = 3
  /\ interiors[max_id - 1].entry.count = 6

\* the first k symbols of symbols_least_to_most_probable, as table keys
FirstSorted(k) == { Some(symbols_least_to_most_probable[i]) : i \in 1..k }

\* the merges made so far and the table returned (a state predicate)
MergeOrderInv ==
  (prog = "memory_efficent_huffman" /\ hist # EmptyMap) =>
    /\ pc = "for" => Merged = FirstSorted(lidx - 1)
    /\ pc \in {"build", "built", "step2", "failed"} => Merged = FirstSorted(lidx)
    /\ pc # "start" =>
         \A m \in Merged : \A r \in DOMAIN working_hist \ {None} :
           hist[m[1]] <= hist[r[1]]
    /\ pc = "step2" =>
         /\ lidx >= 1
         /\ Cardinality(Merged) = lidx
         /\ DOMAIN encoding = {None} \cup ({ Some(v) : v \in DOMAIN hist } \ Merged)
         /\ DOMAIN encoding = DOMAIN working_hist
         /\ MaxLength(encoding) <= allowed_length

\* one step of the limiter: every build starts from scratch after one more
\* merge, and a table is returned exactly when it is the first that fits
MergeOrderStep ==
  /\ (pc = "for" /\ pc' = "build") =>
       /\ Cardinality(Merged') = Cardinality(Merged) + 1
       /\ Q' = SeedQueue(working_hist')
       /\ interiors' = EmptyMap
       /\ max_id' = 1
  /\ (pc = "built" /\ MaxLength(encoding) <= allowed_length) =>
       (pc' = "step2" /\ encoding' = encoding)
  /\ (pc = "built" /\ MaxLength(encoding) > allowed_length) =>
       (pc' = "for" /\ lidx' = lidx + 1)

\* C17: the limiter merges the symbols in the order of their counts, least
\* first, one symbol per rebuild, each rebuild starting from scratch; it
\* returns the first table whose longest codeword is at most allowed_length
\* (every earlier table was too long), after k >= 1 merges, and the table's
\* keys are the escape symbol and the symbols other than the k merged ones.
C17_MergeOrder == [](MergeOrderInv) /\ [][MergeOrderStep]_vars

C17_Witness ==
  /\ pc = "step2"
  /\ lidx = 2
  /\ Cardinality(DOMAIN hist) = 4
  /\ Cardinality(DOMAIN encoding) = 3
  /\ \A m \in Merged : hist[m[1]] = 1
  /\ \A r \in DOMAIN working_hist \ {None} : hist[r[1]] = 2
  /\ MaxLength(encoding) = allowed_length

\* what holds of the limiter's merges in every state
BoundedMergesInv ==
  prog = "memory_efficent_huffman" =>
    LET n == Cardinality(DOMAIN hist)
    IN /\ (n >= 2 /\ allowed_length >= 1) =>
            /\ pc # "failed"
            /\ Cardinality(Merged) <= n - 1
            /\ lidx <= n - 1
       /\ (pc \in {"built", "step2"} /\ Cardinality(DOMAIN working_hist) = 2) =>
            MaxLength(encoding) = 1
       /\ pc = "failed" =>
            /\ err = "runtime_error"
            /\ Merged = { Some(v) : v \in DOMAIN hist }
            /\ DOMAIN working_hist = {None}
            /\ n = 1 \/ allowed_length < 1

\* C18: for a histogram of n >= 2 symbols and allowed_length >= 1 the limiter
\* ends after at most n - 1 merges and never with "cannot solve encoding",
\* because a table of the escape entry and one symbol has codewords of length
\* 1; it ends with that error only when every symbol has been merged, which
\* takes a histogram of one symbol or allowed_length < 1; and it always ends.
C18_BoundedMerges == [](BoundedMergesInv) /\ <>(pc \in {"step2", "failed"})

C18_Witness ==
  /\ pc = "step2"
  /\ allowed_length = 1
  /\ Cardinality(DOMAIN hist) = 4
  /\ Cardinality(Merged) = 3
  /\ MaxLength(encoding) = 1

\* the ids of the nodes with children under node
RECURSIVE TreeIds(_)
TreeIds(node) ==
  IF node.left = <<>> /\ node.right = <<>> THEN {}
  ELSE {node.entry.id}
       \cup (IF node.left # <<>> THEN TreeIds(node.left[1]) ELSE {})
       \cup (IF node.right # <<>> THEN TreeIds(node.right[1]) ELSE {})

\* every node under node was created after its children: its id is greater
RECURSIVE CreatedAfterChildren(_)
CreatedAfterChildren(node) ==
  /\ node.left # <<>> =>
       /\ node.left[1].entry.id < node.entry.id
       /\ CreatedAfterChildren(node.left[1])
  /\ node.right # <<>> =>
       /\ node.right[1].entry.id < node.entry.id
       /\ CreatedAfterChildren(node.right[1])

\* the merge loop in every state of the builder, n the histogram's size
MergeLoopInv ==
  pc \in {"build", "built"} =>
    LET n == Cardinality(DOMAIN BuiltHist)
    IN /\ Cardinality(Q) + (max_id - 1) = n
       /\ \A e \in Q : e.id \in 0..(max_id - 1)
       /\ \A e, f \in Q : (e.id # 0 /\ e.id = f.id) => e = f
       /\ (n >= 2 /\ Cardinality(Q) < 2) =>
            /\ Cardinality(Q) = 1
            /\ max_id - 1 = n - 1
            /\ \A e \in Q : e.id = RootId /\ interiors[RootId].entry = e
            /\ DOMAIN interiors = {RootId}
            /\ TreeIds(interiors[RootId]) = 1..(n - 1)
            /\ NumInteriors(interiors[RootId]) = n - 1
            /\ CreatedAfterChildren(interiors[RootId])
       /\ pc = "built" => (n >= 2 /\ Cardinality(Q) = 1)

\* one iteration takes two entries and puts one back, under the next id
MergeLoopStep ==
  (pc = "build" /\ pc' = "build") =>
    /\ Cardinality(Q) >= 2
    /\ Cardinality(Q') = Cardinality(Q) - 1
    /\ max_id' = max_id + 1
    /\ \E e \in Q' : e.id = max_id /\ e \notin Q
    /\ \A e \in Q : e.id # max_id

\* C19: for a histogram of n >= 2 entries the merge loop ends after exactly
\* n - 1 iterations, each taking one entry off the queue, with one entry
\* left; the interior ids are 1, 2, ..., n - 1 in the order of creation, none
\* used twice; the entry left has the last id assigned, max_id - 1, the key
\* the code looks up, and the side table still holds it: the root.
C19_MergeLoop ==
  /\ [](MergeLoopInv)
  /\ [][MergeLoopStep]_vars
  /\ (pc = "build") ~> (pc \in {"built", "failed"})

C19_Witness ==
  /\ pc = "build"
  /\ Cardinality(Q) = 1
  /\ max_id = 4
  /\ DOMAIN interiors = {3}
  /\ interiors[3].left[1].entry.id = 1
  /\ interiors[3].right[1].entry.id = 2

\* the ids of the interior nodes of all the trees the side table holds
HeldIds == UNION { TreeIds(interiors[k]) : k \in DOMAIN interiors }

\* the side table and the queue between two iterations of the merge loop
HandshakeInv ==
  pc \in {"build", "built"} =>
    /\ DOMAIN interiors = { e.id : e \in { f \in Q : f.id # 0 } }
    /\ 0 \notin DOMAIN interiors
    /\ \A e, f \in Q : (e.id # 0 /\ e.id = f.id) => e = f
    /\ \A e \in Q : e.id # 0 => interiors[e.id].entry = e
    /\ \A k, m \in DOMAIN interiors :
         k # m => TreeIds(interiors[k]) \cap TreeIds(interiors[m]) = {}
    /\ \A k \in DOMAIN interiors :
         NumInteriors(interiors[k]) = Cardinality(TreeIds(interiors[k]))
    /\ HeldIds = 1..(max_id - 1)

\* one iteration: each entry popped gets its subtree from the side table, or
\* a new leaf when its id is 0, and the new node is none of its own children
HandshakeStep ==
  (pc = "build" /\ pc' = "build") =>
    LET new_node == interiors'[max_id]
        children == { new_node.left[1], new_node.right[1] }
    IN /\ Cardinality(Q \ Q') = 2
       /\ \A e \in Q \ Q' :
            IF e.id # 0
            THEN /\ e.id \in DOMAIN interiors
                 /\ interiors[e.id] \in children
                 /\ e.id \notin DOMAIN interiors'
            ELSE /\ e.id \notin DOMAIN interiors
                 /\ Leaf(e.value, e.count) \in children
       /\ \A c \in children : c.entry.id # max_id /\ max_id \notin TreeIds(c)
       /\ new_node.entry.id = max_id

\* C20: between the iterations of the merge loop the keys of the side table
\* are the non-zero ids of the queue's entries, each once; an interior entry
\* popped finds its subtree in the side table and takes it out, a leaf entry
\* (id 0) matches no key, the node an iteration creates is never its own
\* child although it is stored before the pops, and every interior node is
\* the child of at most one node (of none only while the queue holds it).
C20_Handshake == [](HandshakeInv) /\ [][HandshakeStep]_vars

C20_Witness ==
  /\ pc = "build"
  /\ Cardinality(Q) = 1
  /\ max_id = 4
  /\ interiors[3].left[1].entry.id = 0
  /\ interiors[3].right[1].entry.id = 2
  /\ interiors[3].right[1].left[1].entry.id = 1

\* C21: par_encoded is allocated with values.size() * largest_encoding
\* cells; every index j + offsets[i] the second loop writes is below that
\* size, the acc of the scan loop is at most that size, no write leaves the
\* vector, and resize(acc) only cuts: every cell it keeps was written.
C21_BufferBounds ==
  prog = "huffman_code" =>
    /\ pc # "undefined"
    /\ pc \in {"fork", "parallel"} =>
         /\ largest_encoding = LargestEncoding(encoding)
         /\ Len(par_encoded) = Len(values) * largest_encoding
    /\ (pc = "parallel" /\ BarrierReached) => ReducedAcc <= Len(par_encoded)
    /\ (pc = "parallel" /\ InPhase2) =>
         /\ acc <= Len(par_encoded)
         /\ \A i \in DOMAIN values : \A j \in 0..(CodeLen(values[i]) - 1) :
              j + offsets[i] < Len(par_encoded)
         /\ \A w \in Threads :
              wpc[w] = "write" => wj[w] + offsets[wi[w]] < Len(par_encoded)
    /\ pc = "done" =>
         /\ Len(par_encoded) = acc
         /\ acc <= Len(values) * largest_encoding
         /\ \A c \in 1..acc : writes[c] >= 1

C21_Witness ==
  /\ prog = "huffman_code"
  /\ pc = "done"
  /\ nthreads = 2
  /\ Len(values) = 3
  /\ largest_encoding = 2
  /\ Len(writes) = 6
  /\ acc = 5
  /\ Len(par_encoded) = 5
  /\ writes[5] = 1
  /\ writes[6] = 0

====
